---- MODULE Spec2Model ----
(***************************************************************************)
(* Model of the pracuj.pl job monitor (src/main.py): the JobSearch         *)
(* identity, the search registry kept in memory and in Redis, and the      *)
(* monitoring loop that fetches offers, records new ones and sends alerts. *)
(*                                                                         *)
(* Text is modelled as a sequence of tokens: a token is either the         *)
(* separator ":" or a piece of text without a separator.  str.lower() is   *)
(* applied token by token.  An Optional[str] is <<>> (None) or <<text>>.   *)
(***************************************************************************)
EXTENDS Integers, Sequences, FiniteSets, TLC

\* ----------------------------------------------------------------- bounds
\* add_search / remove_search calls made by the embedding program, in total
MaxOps == 3
\* process restarts
MaxRestarts == 1

\* ------------------------------------------------------------------- text
None == <<>>
Some(text) == <<text>>

\* str.lower() on one token
LowerTok(t) ==
  CASE t = "DevOps Engineer" -> "devops engineer"
    [] t = "DEVOPS ENGINEER" -> "devops engineer"
    [] t = "Cloud Engineer" -> "cloud engineer"
    [] t = "CLOUD ENGINEER" -> "cloud engineer"
    [] t = "Wroclaw" -> "wroclaw"
    [] t = "WROCLAW" -> "wroclaw"
    [] t = "Warszawa" -> "warszawa"
    [] t = "WARSZAWA" -> "warszawa"
    [] t = "Krzyki" -> "krzyki"
    [] t = "KRZYKI" -> "krzyki"
    [] t = "Gießen" -> "gießen"
    [] t = "GIESSEN" -> "giessen"
    [] OTHER -> t

\* str.lower()
Lower(s) == [i \in DOMAIN s |-> LowerTok(s[i])]

\* truthiness of an Optional[str]: None and "" are falsy
Truthy(opt) == opt # None /\ opt[1] # <<>>

\* JobSearch.get_search_id
get_search_id(position, city) ==
  IF Truthy(city) THEN Lower(position \o <<":">> \o city[1]) ELSE Lower(position)

\* index of the first ":" of s at or after position i, Len(s)+1 when there is none
RECURSIVE FindColon(_, _)
FindColon(s, i) ==
  IF i > Len(s) THEN Len(s) + 1
  ELSE IF s[i] = ":" THEN i ELSE FindColon(s, i + 1)

\* str.split(":"): the list of the parts between the separators
RECURSIVE Split(_)
Split(s) ==
  LET c == FindColon(s, 1)
  IN IF c > Len(s) THEN <<s>>
     ELSE <<SubSeq(s, 1, c - 1)>> \o Split(SubSeq(s, c + 1, Len(s)))

\* setup, lines 99-100: position, *city = search_str.split(":");
\* the search handed to add_search is (position, city[0] if city else None)
ParseSaved(search_str) ==
  LET parts == Split(search_str)
  IN [position |-> parts[1],
      city |-> IF Len(parts) > 1 THEN Some(parts[2]) ELSE None]

\* DEFAULT_CONFIG["DEFAULT_SEARCHES"]
DEFAULT_SEARCHES ==
  << [position |-> <<"DevOps Engineer">>, city |-> Some(<<"Wroclaw">>)],
     [position |-> <<"Cloud Engineer">>, city |-> Some(<<"Warszawa">>)],
     [position |-> <<"DevOps Engineer">>, city |-> None] >>

\* the (position, city) pairs at the edges of what add_search accepts: a
\* position of blanks only, a pair and the same pair in capitals, and a city
\* with a letter that has no capital of its own
EdgeInputs ==
  { [position |-> <<" ">>, city |-> None],
    [position |-> <<"Cloud Engineer">>, city |-> Some(<<"Warszawa">>)],
    [position |-> <<"CLOUD ENGINEER">>, city |-> Some(<<"WARSZAWA">>)],
    [position |-> <<"Cloud Engineer">>, city |-> Some(<<"Gießen">>)],
    [position |-> <<"CLOUD ENGINEER">>, city |-> Some(<<"GIESSEN">>)] }

\* the (position, city) pairs the embedding program passes to add_search and
\* remove_search
SearchInputs ==
  { [position |-> <<"Cloud Engineer">>, city |-> None],
    [position |-> <<"DevOps Engineer">>, city |-> Some(<<"Wroclaw">>)],
    [position |-> <<"DevOps Engineer">>, city |-> Some(<<"Wroclaw", ":", "Krzyki">>)] }

\* ------------------------------------------------------------------ state
VARIABLES
  pc,            \* where the process is: "boot", "ready", the points of run(), or ended
  redis_client,  \* self.redis_client is a client (TRUE) or None (FALSE)
  searches,      \* self.searches: the dict, as its entries in insertion order
  job_searches,  \* Redis set "job_searches"
  offer_store,   \* Redis hashes "offer:<offer_id>": offer_id -> stored offer_data
  idx,           \* run: position of the current search in self.searches.values()
  offers,        \* run: the list get_job_offers returned for the current search
  oidx,          \* process_offers: position of the current offer in the list
  store_ok,      \* history: no Redis call has raised and no client was None so far
  notified,      \* history: the (search id, groupId) pairs bot.send_message was called
                 \* for while store_ok; emptied when store_ok ends
  seen_before,   \* history: the offer ids stored when the current process_offers call began
  batch,         \* history: the Redis writes and alerts of the current process_offers call
  fetch_failed,  \* history: a fetch of the current cycle has failed
  first_cycle,   \* history: run() is in its first pass of while True
  ops,           \* history: number of add_search / remove_search calls so far
  last_op,       \* history: the last of these calls, NoOp before the first
  added,         \* history: the ids added by add_search with a Redis call that
                 \* worked and not removed since
  removed,       \* history: the ids added by add_search, then removed by
                 \* remove_search and not added since, all with Redis calls that worked
  restarts,      \* history: number of restarts so far
  recorded       \* history: the (search id, groupId) pairs hmset has written a record for

vars == <<pc, redis_client, searches, job_searches, offer_store, idx, offers, oidx,
          store_ok, notified, seen_before, batch, fetch_failed, first_cycle,
          ops, last_op, added, removed, restarts, recorded>>

api_vars == <<ops, last_op, added, removed>>
iter_vars == <<idx, offers, oidx, seen_before, batch, fetch_failed>>
loop_vars == <<iter_vars, first_cycle>>
registry_vars == <<searches, job_searches>>
alert_vars == <<offer_store, notified, recorded>>

\* -------------------------------------------------------------- registry
\* the keys of self.searches
Ids(s) == {s[i].id : i \in DOMAIN s}

\* self.searches[search_id] = search: a new key is appended, an existing key
\* keeps its place and gets the new value
DictSet(s, rec) ==
  IF rec.id \in Ids(s)
  THEN [i \in DOMAIN s |-> IF s[i].id = rec.id THEN rec ELSE s[i]]
  ELSE Append(s, rec)

\* self.searches.pop(search_id, None)
DictPop(s, id) == SelectSeq(s, LAMBDA r : r.id # id)

\* The registry operations work on reg = [searches, saved, raised]: the dict,
\* the Redis set and whether the call has raised.  client: self.redis_client
\* is not None; ok: the Redis call of this operation succeeds.

\* JobMonitor.add_search
add_search(reg, position, city, client, ok) ==
  LET id == get_search_id(position, city)
      s1 == DictSet(reg.searches, [id |-> id, position |-> position, city |-> city])
  IN [searches |-> s1,
      saved |-> IF client /\ ok THEN reg.saved \cup {id} ELSE reg.saved,
      raised |-> client /\ ~ok]

\* remove_search with its two steps swapped: srem first, then the pop, which
\* an exception of srem skips
remove_search_store_first(reg, position, city, client, ok) ==
  LET id == get_search_id(position, city)
  IN [searches |-> IF client /\ ~ok THEN reg.searches ELSE DictPop(reg.searches, id),
      saved |-> IF client /\ ok THEN reg.saved \ {id} ELSE reg.saved,
      raised |-> client /\ ~ok]

\* JobMonitor.remove_search
remove_search(reg, position, city, client, ok) ==
  LET id == get_search_id(position, city)
  IN [searches |-> DictPop(reg.searches, id),
      saved |-> IF client /\ ok THEN reg.saved \ {id} ELSE reg.saved,
      raised |-> client /\ ~ok]

\* the for loops of setup: add_search for each element of list, the k-th being
\* the one whose sadd raises when k = failAt; an exception ends the loop
RECURSIVE AddAll(_, _, _, _, _)
AddAll(reg, list, k, failAt, client) ==
  IF list = <<>> \/ reg.raised THEN reg
  ELSE AddAll(add_search(reg, Head(list).position, Head(list).city, client, k # failAt),
              Tail(list), k + 1, failAt, client)

\* the orders in which a Python set can be iterated
Orders(S) ==
  {f \in [1..Cardinality(S) -> S] : \A x \in S : \E i \in DOMAIN f : f[i] = x}

\* JobMonitor.setup.  order: the iteration order of smembers' result;
\* failAt: 0 when smembers raises, k when the sadd of the k-th add_search
\* raises, larger when no Redis call raises
setup(saved, client, order, failAt) ==
  LET reg0 == [searches |-> <<>>, saved |-> saved, raised |-> FALSE]
  IN IF client
     THEN IF failAt = 0 THEN [reg0 EXCEPT !.raised = TRUE]
          ELSE IF saved # {}
               THEN AddAll(reg0, [i \in DOMAIN order |-> ParseSaved(order[i])],
                           1, failAt, client)
               ELSE AddAll(reg0, DEFAULT_SEARCHES, 1, failAt, client)
     ELSE AddAll(reg0, DEFAULT_SEARCHES, 1, failAt, client)

\* ------------------------------------------------------------ the process
NoOp == [op |-> "none", position |-> <<>>, city |-> None, redis_ok |-> TRUE,
         raised |-> FALSE, follows_add |-> FALSE]

Init ==
  /\ pc = "boot"
  /\ redis_client = FALSE
  /\ searches = <<>>
  /\ job_searches = {}
  /\ offer_store = <<>>
  /\ idx = 0
  /\ offers = <<>>
  /\ oidx = 0
  /\ store_ok = TRUE
  /\ notified = {}
  /\ seen_before = {}
  /\ batch = <<>>
  /\ fetch_failed = FALSE
  /\ first_cycle = FALSE
  /\ ops = 0
  /\ last_op = NoOp
  /\ added = {}
  /\ removed = {}
  /\ restarts = 0
  /\ recorded = {}

\* number of add_search calls setup makes
SetupCalls(saved, client) ==
  IF client /\ saved # {} THEN Cardinality(saved) ELSE Len(DEFAULT_SEARCHES)

\* JobMonitor.__init__, lines 72-89: redis.from_url gives a client or raises
\* RedisError (then the client is None); telegram.Bot may reject the token,
\* which ends the process; then setup, whose exceptions end the process too
Construct ==
  /\ pc = "boot"
  /\ \E client \in BOOLEAN :
       /\ redis_client' = client
       /\ \/ /\ pc' = "crashed"
             /\ UNCHANGED <<searches, job_searches, store_ok, notified>>
          \/ \E order \in Orders(IF client THEN job_searches ELSE {}) :
               LET n == SetupCalls(job_searches, client)
               IN \E failAt \in (IF client THEN 0..(n + 1) ELSE {n + 1}) :
                    LET reg == setup(job_searches, client, order, failAt)
                    IN /\ pc' = IF reg.raised THEN "crashed" ELSE "ready"
                       /\ searches' = reg.searches
                       /\ job_searches' = reg.saved
                       /\ store_ok' = (store_ok /\ client /\ ~reg.raised)
                       /\ notified' = IF store_ok' THEN notified ELSE {}
  /\ UNCHANGED <<offer_store, recorded, loop_vars, api_vars, restarts>>

\* the embedding program calls add_search(position, city) with a pair of inputs
AddSearchOf(inputs) ==
  /\ pc = "ready"
  /\ ops < MaxOps
  /\ ops' = ops + 1
  /\ \E inp \in inputs, ok \in BOOLEAN :
       LET reg == add_search([searches |-> searches, saved |-> job_searches,
                              raised |-> FALSE],
                             inp.position, inp.city, redis_client, ok)
       IN /\ ~redis_client => ok
          /\ searches' = reg.searches
          /\ job_searches' = reg.saved
          /\ store_ok' = (store_ok /\ ~reg.raised)
          /\ notified' = IF store_ok' THEN notified ELSE {}
          /\ last_op' = [op |-> "add", position |-> inp.position, city |-> inp.city,
                          redis_ok |-> ok, raised |-> reg.raised, follows_add |-> FALSE]
          /\ added' = IF redis_client /\ ok
                       THEN added \cup {get_search_id(inp.position, inp.city)}
                       ELSE added
          /\ removed' = removed \ {get_search_id(inp.position, inp.city)}
  /\ UNCHANGED <<pc, redis_client, offer_store, recorded, loop_vars, restarts>>

AddSearch == AddSearchOf(SearchInputs)

\* add_search called with the pairs of EdgeInputs
AddEdgeSearch == AddSearchOf(EdgeInputs)

\* the embedding program calls remove_search(position, city)
RemoveSearch ==
  /\ pc = "ready"
  /\ ops < MaxOps
  /\ ops' = ops + 1
  /\ \E inp \in SearchInputs, ok \in BOOLEAN :
       LET reg == remove_search([searches |-> searches, saved |-> job_searches,
                                 raised |-> FALSE],
                                inp.position, inp.city, redis_client, ok)
       IN /\ ~redis_client => ok
          /\ searches' = reg.searches
          /\ job_searches' = reg.saved
          /\ store_ok' = (store_ok /\ ~reg.raised)
          /\ notified' = IF store_ok' THEN notified ELSE {}
          /\ last_op' = [op |-> "remove", position |-> inp.position, city |-> inp.city,
                          redis_ok |-> ok, raised |-> reg.raised,
                          follows_add |-> /\ last_op.op = "add"
                                          /\ last_op.position = inp.position
                                          /\ last_op.city = inp.city]
          /\ LET id == get_search_id(inp.position, inp.city)
             IN /\ removed' = IF id \in added /\ redis_client /\ ok
                               THEN removed \cup {id} ELSE removed \ {id}
                /\ added' = added \ {id}
  /\ UNCHANGED <<pc, redis_client, offer_store, recorded, loop_vars, restarts>>

\* the embedding program ends without calling run()
Quit ==
  /\ pc = "ready"
  /\ pc' = "stopped"
  /\ UNCHANGED <<redis_client, registry_vars, alert_vars, loop_vars, store_ok,
                 api_vars, restarts>>

\* the process has ended and is started again: memory is lost, Redis is kept
Restart ==
  /\ pc \in {"stopped", "crashed", "killed"}
  /\ restarts < MaxRestarts
  /\ pc' = "boot"
  /\ redis_client' = FALSE
  /\ searches' = <<>>
  /\ idx' = 0
  /\ offers' = <<>>
  /\ oidx' = 0
  /\ batch' = <<>>
  /\ seen_before' = {}
  /\ fetch_failed' = FALSE
  /\ first_cycle' = FALSE
  /\ restarts' = restarts + 1
  /\ UNCHANGED <<job_searches, alert_vars, store_ok, api_vars>>

\* ------------------------------------------------------------ the source
\* An offer record of the page: groupId is None when the key is missing,
\* complete says whether the other keys process_offers reads are present,
\* jobTitle stands for the attribute values.
Offer(gid, complete, title) == [groupId |-> gid, complete |-> complete, jobTitle |-> title]

\* the groupedOffers lists the page can hold
Payloads ==
  { << Offer(Some(<<"42">>), TRUE, "t1"), Offer(Some(<<"9">>), FALSE, "t1"),
       Offer(Some(<<"7">>), TRUE, "t1") >>,
    << Offer(Some(<<"42">>), TRUE, "t2") >>,
    << Offer(None, TRUE, "t1"), Offer(Some(<<"42">>), TRUE, "t1") >> }

\* groupedOffers lists of a page whose groupId values may hold a ":"
KeyPayloads ==
  { << Offer(Some(<<"42">>), TRUE, "t1") >>,
    << Offer(Some(<<"wroclaw", ":", "42">>), TRUE, "t1") >>,
    << Offer(None, TRUE, "t1") >> }

\* what requests.get and the parsing of the page can come to
FetchOutcomes ==
  {[kind |-> "error", list |-> <<>>], [kind |-> "nodata", list |-> <<>>]}
    \cup {[kind |-> "page", list |-> l] : l \in Payloads}

\* the same for a page with the lists of KeyPayloads
KeyOutcomes ==
  {[kind |-> "error", list |-> <<>>]} \cup {[kind |-> "page", list |-> l] : l \in KeyPayloads}

\* get_job_offers without its try/except: a request error leaves the method
get_job_offers_raising(outcome) ==
  [offers |-> IF outcome.kind = "page" THEN outcome.list ELSE <<>>,
   failed |-> outcome.kind # "page",
   raised |-> outcome.kind = "error"]

\* JobMonitor.get_job_offers: the list returned, whether the fetch failed, and
\* whether an exception leaves the method
get_job_offers(outcome) ==
  [offers |-> IF outcome.kind = "page" THEN outcome.list ELSE <<>>,
   failed |-> outcome.kind # "page",
   raised |-> FALSE]

\* ------------------------------------------------------- process_offers
\* line 182: offer_id = f"{search.get_search_id()}:{offer['groupId']}"
OfferId(search, offer) ==
  get_search_id(search.position, search.city) \o <<":">> \o offer.groupId[1]

\* lines 185-194: the offer_data written to Redis
OfferData(offer) == [jobTitle |-> offer.jobTitle]

\* line 184 without the existence check: every offer is taken as new
IsNew_always(client, store, offer_id) == TRUE

\* line 184 without the test of the client: only the records decide
IsNew_storeonly(client, store, offer_id) == offer_id \notin DOMAIN store

\* line 184: not self.redis_client or not self.redis_client.exists(...)
IsNew(client, store, offer_id) == ~client \/ offer_id \notin DOMAIN store

\* line 197 left out: nothing is written
hmset_lost(store, offer_id, offer_data) == store

\* line 197 with records that expire: the write drops the older records
hmset_expiring(store, offer_id, offer_data) == (offer_id :> offer_data)

\* line 197: hmset writes the fields of offer_data into the hash
hmset(store, offer_id, offer_data) ==
  (offer_id :> offer_data) @@ store

\* lines 154-155 with a rollback: the record of the offer is deleted
on_alert_error_rollback(store, offer_id) ==
  [k \in DOMAIN store \ {offer_id} |-> store[k]]

\* lines 154-155: what a failed bot.send_message does to the stored offers
on_alert_error(store, offer_id) == store

\* run without the handler of lines 226-228: the exception ends the process
on_cycle_error_reraise == "crashed"

\* lines 226-228: where an exception that reaches run's handler leaves the loop
on_cycle_error == "errsleep"

CurSearch == searches[idx]

\* the for loop of process_offers going through the list from its end
CurOffer_reversed == offers[Len(offers) + 1 - oidx]

\* line 181: the offer the for loop of process_offers is at
CurOffer == offers[oidx]

\* the for loop of process_offers moves to the next offer, or the call returns
\* (lines 217-219: the log line, then the pause between requests)
NextOffer ==
  IF oidx < Len(offers)
  THEN pc' = "offer" /\ oidx' = oidx + 1
  ELSE pc' = "pause" /\ oidx' = oidx

\* line 204 with the alert still sent after a failed write
on_record_error_notify == pc' = "alert" /\ oidx' = oidx

\* line 204: an exception of hmset skips the rest of the try block, the alert
\* included, and the for loop goes on
on_record_error == NextOffer

\* ------------------------------------------------------------------ run
\* main: monitor.run()
Run ==
  /\ pc = "ready"
  /\ pc' = "cycle"
  /\ first_cycle' = TRUE
  /\ UNCHANGED <<redis_client, registry_vars, alert_vars, iter_vars, store_ok,
                 api_vars, restarts>>

\* lines 211-213: a pass of while True starts the for loop over the searches
CycleStart ==
  /\ pc = "cycle"
  /\ pc' = IF searches = <<>> THEN "sleep" ELSE "fetch"
  /\ idx' = 1
  /\ offers' = <<>>
  /\ oidx' = 0
  /\ batch' = <<>>
  /\ seen_before' = {}
  /\ fetch_failed' = FALSE
  /\ UNCHANGED <<first_cycle, redis_client, registry_vars, alert_vars, store_ok,
                 api_vars, restarts>>

\* lines 214-216: offers = self.get_job_offers(search); if offers: ...
\* outcomes: what the request can come to
FetchOf(outcomes) ==
  /\ pc = "fetch"
  /\ \E outcome \in outcomes :
       LET got == get_job_offers(outcome)
       IN /\ offers' = got.offers
          /\ fetch_failed' = (fetch_failed \/ got.failed)
          /\ pc' = IF got.raised THEN on_cycle_error
                   ELSE IF got.offers # <<>> THEN "offer" ELSE "pause"
          /\ oidx' = IF got.offers # <<>> THEN 1 ELSE 0
  /\ batch' = <<>>
  /\ seen_before' = DOMAIN offer_store
  /\ UNCHANGED <<idx, first_cycle, redis_client, registry_vars, alert_vars, store_ok,
                 api_vars, restarts>>

Fetch == FetchOf(FetchOutcomes)

\* the fetch from a source whose groupId values may hold a ":"
FetchKeyed == FetchOf(KeyOutcomes)

\* lines 181-194 for one offer: the offer id, the existence check, offer_data
CheckOffer ==
  /\ pc = "offer"
  /\ \/ \* line 182 raises KeyError outside the try: the cycle ends in run's handler
        /\ CurOffer.groupId = None
        /\ pc' = on_cycle_error
        /\ UNCHANGED <<oidx, store_ok, notified>>
     \/ \* exists raises: caught at line 204
        /\ CurOffer.groupId # None
        /\ redis_client
        /\ store_ok' = FALSE
        /\ notified' = {}
        /\ NextOffer
     \/ \* the offer is known: nothing is done
        /\ CurOffer.groupId # None
        /\ ~IsNew(redis_client, offer_store, OfferId(CurSearch, CurOffer))
        /\ NextOffer
        /\ UNCHANGED <<store_ok, notified>>
     \/ \* the offer is new, a key of the record is missing: caught at line 204
        /\ CurOffer.groupId # None
        /\ IsNew(redis_client, offer_store, OfferId(CurSearch, CurOffer))
        /\ ~CurOffer.complete
        /\ NextOffer
        /\ UNCHANGED <<store_ok, notified>>
     \/ \* the offer is new: on to lines 196-197
        /\ CurOffer.groupId # None
        /\ IsNew(redis_client, offer_store, OfferId(CurSearch, CurOffer))
        /\ CurOffer.complete
        /\ pc' = IF redis_client THEN "record" ELSE "alert"
        /\ UNCHANGED <<oidx, store_ok, notified>>
  /\ UNCHANGED <<idx, offers, seen_before, batch, fetch_failed, first_cycle,
                 redis_client, registry_vars, offer_store, recorded, api_vars,
                 restarts>>

\* lines 196-197: self.redis_client.hmset(f"offer:{offer_id}", offer_data)
RecordOffer ==
  /\ pc = "record"
  /\ LET id == OfferId(CurSearch, CurOffer)
     IN \/ /\ offer_store' = hmset(offer_store, id, OfferData(CurOffer))
           /\ recorded' = recorded \cup {<<CurSearch.id, CurOffer.groupId[1]>>}
           /\ batch' = Append(batch, [kind |-> "record", key |-> id, ok |-> TRUE])
           /\ pc' = "alert"
           /\ UNCHANGED <<oidx, store_ok, notified>>
        \/ \* hmset raises: caught at line 204
           /\ store_ok' = FALSE
           /\ notified' = {}
           /\ on_record_error
           /\ UNCHANGED <<offer_store, recorded, batch>>
  /\ UNCHANGED <<idx, offers, seen_before, fetch_failed, first_cycle, redis_client,
                 registry_vars, api_vars, restarts>>

\* lines 199-203 and send_telegram_alert: bot.send_message is called; when it
\* raises, the error is logged (lines 154-155)
Alert ==
  /\ pc = "alert"
  /\ LET id == OfferId(CurSearch, CurOffer)
     IN /\ notified' = IF store_ok
                       THEN notified \cup {<<CurSearch.id, CurOffer.groupId[1]>>}
                       ELSE notified
        /\ \E ok \in BOOLEAN :
             /\ batch' = Append(batch, [kind |-> "alert", key |-> id, ok |-> ok])
             /\ offer_store' = IF ok THEN offer_store
                               ELSE on_alert_error(offer_store, id)
  /\ NextOffer
  /\ UNCHANGED <<idx, offers, seen_before, fetch_failed, first_cycle, redis_client,
                 registry_vars, store_ok, recorded, api_vars, restarts>>

\* line 219 and the for loop: after the pause the next search is fetched, or
\* the loop over the searches is done
Pause ==
  /\ pc = "pause"
  /\ IF idx < Len(searches)
     THEN pc' = "fetch" /\ idx' = idx + 1
     ELSE pc' = "sleep" /\ idx' = idx
  /\ offers' = <<>>
  /\ oidx' = 0
  /\ batch' = <<>>
  /\ seen_before' = {}
  /\ UNCHANGED <<fetch_failed, first_cycle, redis_client, registry_vars, alert_vars,
                 store_ok, api_vars, restarts>>

\* line 221: sleep(self.check_interval) returns and while True goes on
Sleep ==
  /\ pc = "sleep"
  /\ pc' = "cycle"
  /\ first_cycle' = FALSE
  /\ UNCHANGED <<redis_client, registry_vars, alert_vars, iter_vars, store_ok,
                 api_vars, restarts>>

\* lines 226-228: the error is logged, sleep(self.check_interval) returns and
\* while True goes on
ErrorSleep ==
  /\ pc = "errsleep"
  /\ pc' = "cycle"
  /\ first_cycle' = FALSE
  /\ UNCHANGED <<redis_client, registry_vars, alert_vars, iter_vars, store_ok,
                 api_vars, restarts>>

\* the points of run() that lie inside the try block of lines 212-221
InTry == {"fetch", "offer", "record", "alert", "pause", "sleep"}

\* where a KeyboardInterrupt raised at point p leaves the process: inside the
\* try it is caught at line 223 and run returns; the sleep of line 228 is in
\* the except clause, where nothing catches it
after_interrupt(p) == IF p \in InTry THEN "stopped" ELSE "killed"

\* the user interrupts the process while run() is at work or asleep; run's
\* local variables are gone when it is left
Interrupt ==
  /\ pc \in InTry \cup {"errsleep"}
  /\ pc' = after_interrupt(pc)
  /\ idx' = 0
  /\ offers' = <<>>
  /\ oidx' = 0
  /\ batch' = <<>>
  /\ seen_before' = {}
  /\ fetch_failed' = FALSE
  /\ first_cycle' = FALSE
  /\ UNCHANGED <<redis_client, registry_vars, alert_vars, store_ok, api_vars, restarts>>

\* the steps of run()
LoopStep ==
  \/ CycleStart \/ Fetch \/ CheckOffer \/ RecordOffer \/ Alert
  \/ Pause \/ Sleep \/ ErrorSleep

\* The program as main() runs it: construction, run(), interrupts, restarts.
Next == Construct \/ Run \/ LoopStep \/ Interrupt \/ Restart

Spec == Init /\ [][Next]_vars

\* The registry as an embedding program uses it: construction, add_search and
\* remove_search calls, the end of the program, restarts.
RegistryNext == Construct \/ AddSearch \/ RemoveSearch \/ Quit \/ Restart

RegistrySpec == Init /\ [][RegistryNext]_vars

\* add_search with the inputs at the edges: construction, add_search calls, the
\* end of the program, restarts.
InputNext == Construct \/ AddEdgeSearch \/ Quit \/ Restart

InputSpec == Init /\ [][InputNext]_vars

\* The program with a source whose groupId values may hold a ":".
KeyLoopStep ==
  \/ CycleStart \/ FetchKeyed \/ CheckOffer \/ RecordOffer \/ Alert
  \/ Pause \/ Sleep \/ ErrorSleep

KeyNext == Construct \/ Run \/ KeyLoopStep \/ Interrupt \/ Restart

KeySpec == Init /\ [][KeyNext]_vars

\* The program left alone: nobody interrupts it.  A step of run() that can be
\* taken is taken: the sleeps return and the requests time out.
LiveNext == Construct \/ Run \/ LoopStep \/ Restart

LiveSpec == Init /\ [][LiveNext]_vars /\ WF_vars(Run) /\ WF_vars(LoopStep)

\* ----------------------------------------------------------- properties
\* the offer has every key process_offers reads
Complete(o) == o.groupId # None /\ o.complete

\* search identifier + ":" + groupId
KeyOf(search, o) == search.id \o <<":">> \o o.groupId[1]

\* how many events of the kind the current process_offers call has for the key
Count(kind, key) ==
  Cardinality({i \in DOMAIN batch : batch[i].kind = kind /\ batch[i].key = key})

\* a step of Alert: bot.send_message is called for the current offer
AlertStep == pc = "alert" /\ pc' \in {"offer", "pause"}

\* process_offers has returned for the current search, with a client whose
\* calls have never failed
DoneWithStore == pc = "pause" /\ redis_client /\ store_ok

\* C1: with a working store, when process_offers has gone through the fetched
\* list, every well-formed offer of the list has a record under search
\* identifier + ":" + groupId; an offer that had no record when the call began
\* got exactly one record write and exactly one Notifier call in this call, an
\* offer that had a record got no record write and no Notifier call.
C1_FirstSightingOnce ==
  DoneWithStore =>
    \A j \in DOMAIN offers :
      Complete(offers[j]) =>
        LET key == KeyOf(CurSearch, offers[j])
        IN /\ key \in DOMAIN offer_store
           /\ IF key \in seen_before
              THEN Count("record", key) = 0 /\ Count("alert", key) = 0
              ELSE Count("record", key) = 1 /\ Count("alert", key) = 1

\* a later cycle has processed a list holding an offer seen before (no alert)
\* and an offer seen for the first time (one record, one alert)
C1_Witness ==
  /\ DoneWithStore
  /\ ~first_cycle
  /\ \E j, k \in DOMAIN offers :
       /\ Complete(offers[j]) /\ Complete(offers[k])
       /\ KeyOf(CurSearch, offers[j]) \in seen_before
       /\ <<CurSearch.id, offers[j].groupId[1]>> \in notified
       /\ Count("alert", KeyOf(CurSearch, offers[j])) = 0
       /\ KeyOf(CurSearch, offers[k]) \notin seen_before
       /\ Count("alert", KeyOf(CurSearch, offers[k])) = 1

\* C2: as long as the store has been available, in this and in all earlier
\* incarnations of the process, the Notifier is never called for a (search,
\* groupId) it has been called for before.
C2_AtMostOnceAcrossRestarts ==
  [][(AlertStep /\ store_ok) =>
       <<CurSearch.id, CurOffer.groupId[1]>> \notin notified]_vars

\* after a restart, the first cycle has gone through a list with an offer that
\* was notified before the restart, and has not notified it
C2_Witness ==
  /\ DoneWithStore
  /\ restarts > 0
  /\ first_cycle
  /\ \E j \in DOMAIN offers :
       /\ Complete(offers[j])
       /\ <<CurSearch.id, offers[j].groupId[1]>> \in notified
       /\ Count("alert", KeyOf(CurSearch, offers[j])) = 0

\* C3: a failed fetch gives the empty list and goes on to the pause without
\* touching the store or the Notifier; the pause goes on to the fetch of the
\* next search; and when a fetch of the cycle has failed, the offers of a
\* search processed in the same cycle are recorded, the new ones notified.
C3_FetchFailureIsolated ==
  [][/\ (pc = "fetch" /\ pc' # "stopped" /\ offers' = <<>>) =>
          (pc' = "pause" /\ idx' = idx /\ fetch_failed' /\ UNCHANGED alert_vars)
     /\ (pc = "pause" /\ pc' # "stopped" /\ idx < Len(searches)) =>
          (pc' = "fetch" /\ idx' = idx + 1)
     /\ (DoneWithStore /\ fetch_failed) =>
          \A j \in DOMAIN offers :
            Complete(offers[j]) =>
              /\ KeyOf(CurSearch, offers[j]) \in DOMAIN offer_store
              /\ KeyOf(CurSearch, offers[j]) \notin seen_before =>
                   Count("alert", KeyOf(CurSearch, offers[j])) = 1]_vars

\* the fetch of an earlier search of the cycle failed, and a later search has
\* had a new offer recorded and notified
C3_Witness ==
  /\ DoneWithStore
  /\ fetch_failed
  /\ idx > 1
  /\ \E j \in DOMAIN offers :
       /\ Complete(offers[j])
       /\ KeyOf(CurSearch, offers[j]) \notin seen_before
       /\ Count("record", KeyOf(CurSearch, offers[j])) = 1
       /\ Count("alert", KeyOf(CurSearch, offers[j])) = 1

\* the alerts of the current process_offers call that failed
FailedAlerts == {i \in DOMAIN batch : batch[i].kind = "alert" /\ ~batch[i].ok}

\* C4: a Notifier call that fails leaves the stored records as they are and
\* goes on to the next offer of the list; no record ever leaves the store;
\* with a client the Notifier is only called for an offer that had no
\* record when the call of process_offers began; and when the list is done,
\* with a working store, the offers after a failed alert have their records
\* and, if new, their alert.
C4_FailedAlertKeepsRecord ==
  [][/\ AlertStep =>
          /\ offer_store' = offer_store
          /\ redis_client => KeyOf(CurSearch, CurOffer) \in DOMAIN offer_store'
          /\ redis_client => KeyOf(CurSearch, CurOffer) \notin seen_before
          /\ IF oidx < Len(offers)
             THEN pc' = "offer" /\ oidx' = oidx + 1
             ELSE pc' = "pause"
     /\ DOMAIN offer_store \subseteq DOMAIN offer_store'
     /\ (DoneWithStore /\ FailedAlerts # {}) =>
          \A j \in DOMAIN offers :
            Complete(offers[j]) =>
              /\ KeyOf(CurSearch, offers[j]) \in DOMAIN offer_store
              /\ KeyOf(CurSearch, offers[j]) \notin seen_before =>
                   Count("alert", KeyOf(CurSearch, offers[j])) = 1]_vars

\* an alert failed, its record is stored, and a later offer of the same list
\* was recorded and notified
C4_Witness ==
  /\ DoneWithStore
  /\ \E i, k \in DOMAIN batch :
       /\ i \in FailedAlerts
       /\ batch[i].key \in DOMAIN offer_store
       /\ i < k
       /\ batch[k].kind = "alert"
       /\ batch[k].key # batch[i].key

\* the keys of the well-formed offers of a list, in the order of the list
RECURSIVE CompleteKeys(_, _)
CompleteKeys(search, list) ==
  IF list = <<>> THEN <<>>
  ELSE (IF Complete(Head(list)) THEN <<KeyOf(search, Head(list))>> ELSE <<>>)
         \o CompleteKeys(search, Tail(list))

\* C5: without a client (self.redis_client is None) every well-formed offer of
\* the fetched list is notified, once for each time it is in the list, whether
\* it has a record or was notified before, and nothing is written.
C5_DegradedNotifiesEveryCycle ==
  (pc = "pause" /\ ~redis_client /\ offers # <<>>) =>
    /\ [i \in DOMAIN batch |-> batch[i].key] = CompleteKeys(CurSearch, offers)
    /\ \A i \in DOMAIN batch : batch[i].kind = "alert"
    /\ DOMAIN offer_store = seen_before

\* without a client, in a cycle after the first, an offer that has a record
\* from an earlier incarnation is notified
C5_Witness ==
  /\ pc = "pause"
  /\ ~redis_client
  /\ ~first_cycle
  /\ \E i \in DOMAIN batch :
       batch[i].kind = "alert" /\ batch[i].key \in DOMAIN offer_store

\* a step in which a Redis call raises for the first time
FirstStoreError == store_ok /\ ~store_ok' /\ redis_client'

\* C6: a Redis call that raises is handled as "store unavailable" for that
\* call: construction still completes, an existence check that raises still
\* leads to the record write or the alert of a well-formed offer, a record
\* write that raises still leads to the alert.
C6_StoreErrorsContained ==
  [][FirstStoreError =>
       /\ pc' # "crashed"
       /\ (pc = "offer" /\ Complete(CurOffer)) => pc' \in {"record", "alert"}
       /\ pc = "record" => pc' = "alert"]_vars

\* the points of run()
InLoop ==
  pc \in {"cycle", "fetch", "offer", "record", "alert", "pause", "sleep", "errsleep"}

\* C7: when nobody interrupts it, run() never leaves its loop, and again and
\* again it sleeps the check interval and starts a pass of while True.
C7_LoopNeverEnds ==
  /\ [][InLoop => InLoop']_vars
  /\ [](InLoop => ([]<>(pc = "cycle") /\ []<>(pc \in {"sleep", "errsleep"})))

\* after a first pass, with Redis calls that have raised, an exception has
\* reached run's handler, which sleeps
C7_Witness == pc = "errsleep" /\ ~first_cycle /\ redis_client /\ ~store_ok

\* C8: an interrupt at any point of run() ends it through the handler of
\* line 223 (the process ends normally), with the stored offers untouched.
C8_InterruptStopsGracefully ==
  [][(InLoop /\ ~InLoop') => (pc' = "stopped" /\ offer_store' = offer_store)]_vars

\* a step of AddSearch or RemoveSearch
OpStep == ops' = ops + 1

LastId(op) == get_search_id(op.position, op.city)

\* C9: remove_search(position, city) leaves self.searches without
\* identifier(position, city), whatever Redis does, so also right after
\* add_search(position, city); when the identifier is neither in
\* self.searches nor in the Redis set the call changes neither of them, and it
\* raises only if its Redis call does.
C9_RemoveAfterAdd ==
  [][(OpStep /\ last_op'.op = "remove") =>
       /\ LastId(last_op') \notin Ids(searches')
       /\ (LastId(last_op') \notin Ids(searches) /\ LastId(last_op') \notin job_searches) =>
            /\ searches' = searches
            /\ job_searches' = job_searches
            /\ last_op'.raised => (redis_client /\ ~last_op'.redis_ok)]_vars

\* add_search(position, city) and then remove_search(position, city), the
\* Redis calls of both raising
C9_Witness ==
  /\ last_op.op = "remove"
  /\ last_op.follows_add
  /\ last_op.raised
  /\ ~store_ok
  /\ LastId(last_op) \notin Ids(searches)
  /\ LastId(last_op) \in job_searches

\* DEFAULT_SEARCHES as identifiers
DefaultIds ==
  {get_search_id(DEFAULT_SEARCHES[i].position, DEFAULT_SEARCHES[i].city) :
     i \in DOMAIN DEFAULT_SEARCHES}

\* a step of Construct that completes with a client whose calls all worked
SetupWithStore == pc = "boot" /\ pc' = "ready" /\ redis_client' /\ store_ok'

\* C10: setup with a working store loads the defaults if and only if the
\* Redis set is empty; otherwise the registry holds identifiers of the Redis
\* set only, and no identifier that was added and then removed.
C10_DefaultsOnlyWhenEmpty ==
  [][SetupWithStore =>
       /\ job_searches = {} => Ids(searches') = DefaultIds
       /\ job_searches # {} =>
            /\ Ids(searches') \subseteq job_searches
            /\ removed \cap Ids(searches') = {}]_vars

\* a step of __init__ in which the store shows itself unavailable for the first
\* time: redis.from_url gave no client, or there is a client and smembers, the
\* first call made on it, raises (setup then has added nothing)
StoreDownAtStartup ==
  /\ pc = "boot"
  /\ store_ok
  /\ ~store_ok'
  /\ redis_client' => searches' = <<>>

\* C11: when the store is unavailable at startup, also when its first call
\* fails, construction completes with exactly the default searches in
\* self.searches and nothing written to the Redis set, and run() can start.
C11_StartupWithoutStore ==
  [][StoreDownAtStartup =>
       /\ pc' = "ready"
       /\ Ids(searches') = DefaultIds
       /\ job_searches' = job_searches]_vars

\* identifier(search) of the search setup reconstructs from a persisted identifier
Reconstructed(search_str) ==
  get_search_id(ParseSaved(search_str).position, ParseSaved(search_str).city)

\* C12: setup with a working store and a non-empty Redis set reconstructs from
\* every persisted identifier s a search whose identifier is s, and leaves the
\* Redis set as it was.
C12_SplitRoundTrip ==
  [][(SetupWithStore /\ job_searches # {}) =>
       /\ \A s \in job_searches : Reconstructed(s) = s
       /\ job_searches' = job_searches]_vars

\* a position that is empty after trimming
Blank(position) == \A i \in DOMAIN position : position[i] = " "

\* C13: add_search with a position that is empty after trimming is rejected:
\* the call raises and changes neither self.searches nor the Redis set.
C13_BlankPositionRejected ==
  [][(OpStep /\ last_op'.op = "add" /\ Blank(last_op'.position)) =>
       /\ last_op'.raised
       /\ searches' = searches
       /\ job_searches' = job_searches]_vars

\* str.upper() on one token
UpperTok(t) ==
  CASE t \in {"DevOps Engineer", "devops engineer"} -> "DEVOPS ENGINEER"
    [] t \in {"Cloud Engineer", "cloud engineer"} -> "CLOUD ENGINEER"
    [] t \in {"Wroclaw", "wroclaw"} -> "WROCLAW"
    [] t \in {"Warszawa", "warszawa"} -> "WARSZAWA"
    [] t \in {"Krzyki", "krzyki"} -> "KRZYKI"
    [] t \in {"Gießen", "gießen", "giessen"} -> "GIESSEN"
    [] OTHER -> t

\* str.upper(), and the same on an Optional[str]
Upper(s) == [i \in DOMAIN s |-> UpperTok(s[i])]
UpperOpt(opt) == IF opt = None THEN None ELSE Some(Upper(opt[1]))

\* the (position, city) of a call, in capitals
UpperPair(op) == <<Upper(op.position), UpperOpt(op.city)>>

\* C14: the identifier of (position, city) is the identifier of
\* (upper(position), upper(city)); and when add_search is called right after
\* an add_search whose pair was the same up to letter case and whose entry is
\* still in self.searches, the call adds no entry, and the one entry under the
\* identifier holds the search of the later call.
C14_IdentifierIgnoresCase ==
  [][(OpStep /\ last_op'.op = "add") =>
       /\ LastId(last_op') = get_search_id(Upper(last_op'.position), UpperOpt(last_op'.city))
       /\ (/\ last_op.op = "add"
           /\ UpperPair(last_op) = UpperPair(last_op')
           /\ LastId(last_op) \in Ids(searches)) =>
            /\ Len(searches') = Len(searches)
            /\ \E i \in DOMAIN searches' :
                 searches'[i] = [id |-> LastId(last_op'), position |-> last_op'.position,
                                 city |-> last_op'.city]]_vars

\* C15: an offer record that lacks an expected key is passed over: the for
\* loop of process_offers goes on to the next offer or the call returns to the
\* pause, the cycle stays with the current search and the store is not touched.
C15_MalformedOfferIsolated ==
  [][(pc = "offer" /\ ~Complete(CurOffer) /\ pc' \notin {"stopped", "killed"}) =>
       /\ pc' \in {"offer", "pause"}
       /\ idx' = idx
       /\ offer_store' = offer_store]_vars

\* the offer key of a (search id, groupId) pair
PairKey(p) == p[1] \o <<":">> \o p[2]

\* C17: while the store has been available, every (search, groupId) the
\* Notifier was called for has a record; and with a client the process is at
\* the Notifier call only for an offer whose record is written.
C17_RecordBeforeNotify ==
  /\ store_ok => \A p \in notified : PairKey(p) \in DOMAIN offer_store
  /\ (pc = "alert" /\ redis_client) => KeyOf(CurSearch, CurOffer) \in DOMAIN offer_store

\* an interrupt came between the record write and the Notifier call: the
\* process has stopped, a record is stored that no Notifier call was made for
C17_Witness ==
  /\ pc = "stopped"
  /\ store_ok
  /\ notified # {}
  /\ \E k \in DOMAIN offer_store : \A p \in notified : PairKey(p) # k

\* C19: no step changes or removes a stored record; and with a client an
\* offer whose key has a record is passed over (no write, no Notifier call),
\* whatever its attributes are now.
C19_RecordsNeverChange ==
  [][/\ \A k \in DOMAIN offer_store :
          k \in DOMAIN offer_store' /\ offer_store'[k] = offer_store[k]
     /\ (/\ pc = "offer"
         /\ redis_client
         /\ CurOffer.groupId # None
         /\ OfferId(CurSearch, CurOffer) \in DOMAIN offer_store
         /\ pc' \notin {"stopped", "killed"}) => pc' \in {"offer", "pause"}]_vars

\* a list has been gone through that holds an offer whose attributes differ
\* from its stored record: the record is as it was, no Notifier call was made
C19_Witness ==
  /\ DoneWithStore
  /\ \E j \in DOMAIN offers :
       /\ Complete(offers[j])
       /\ KeyOf(CurSearch, offers[j]) \in seen_before
       /\ offer_store[KeyOf(CurSearch, offers[j])] # OfferData(offers[j])
       /\ Count("alert", KeyOf(CurSearch, offers[j])) = 0
       /\ Count("record", KeyOf(CurSearch, offers[j])) = 0

\* the keys of the Notifier calls of the current process_offers call, in
\* the order of the calls
AlertKeys ==
  LET alerts == SelectSeq(batch, LAMBDA e : e.kind = "alert")
  IN [i \in DOMAIN alerts |-> alerts[i].key]

\* the keys of the well-formed offers of a list that have no record in seen,
\* in the order of the list
RECURSIVE NewKeys(_, _, _)
NewKeys(search, list, seen) ==
  IF list = <<>> THEN <<>>
  ELSE IF Complete(Head(list)) /\ KeyOf(search, Head(list)) \notin seen
       THEN <<KeyOf(search, Head(list))>>
              \o NewKeys(search, Tail(list), seen \cup {KeyOf(search, Head(list))})
       ELSE NewKeys(search, Tail(list), seen)

\* a can be got from b by leaving elements out
RECURSIVE IsSubseq(_, _)
IsSubseq(a, b) ==
  IF a = <<>> THEN TRUE
  ELSE IF b = <<>> THEN FALSE
  ELSE IF Head(a) = Head(b) THEN IsSubseq(Tail(a), Tail(b))
  ELSE IsSubseq(a, Tail(b))

\* C20: the Notifier calls of a process_offers call come in the order of the
\* fetched list, whatever is passed over in between; and with a working store,
\* when the list is done, they are the calls for the new offers, in that order.
C20_AlertsInListOrder ==
  /\ offers # <<>> => IsSubseq(AlertKeys, CompleteKeys(CurSearch, offers))
  /\ DoneWithStore => AlertKeys = NewKeys(CurSearch, offers, seen_before)

\* two new offers were notified, an offer between them in the list was passed over
C20_Witness ==
  /\ DoneWithStore
  /\ \E i, j, k \in DOMAIN offers :
       /\ i < j /\ j < k
       /\ Complete(offers[i]) /\ ~Complete(offers[j]) /\ Complete(offers[k])
       /\ \E a, b \in DOMAIN AlertKeys :
            /\ a < b
            /\ AlertKeys[a] = KeyOf(CurSearch, offers[i])
            /\ AlertKeys[b] = KeyOf(CurSearch, offers[k])

\* C16: an offer whose (search, groupId) no record was written for is taken
\* as new: with a client whose existence check answers, a well-formed offer
\* with such a pair goes on to the record write.
C16_OfferKeyUnique ==
  [][(/\ pc = "offer"
      /\ redis_client
      /\ store_ok'
      /\ Complete(CurOffer)
      /\ <<CurSearch.id, CurOffer.groupId[1]>> \notin recorded
      /\ pc' \notin {"stopped", "killed"}) => pc' = "record"]_vars

\* C18: with a client whose calls have all succeeded, after construction and
\* after every add_search and remove_search the identifiers of self.searches
\* are the members of the Redis set.
C18_RegistryMirrorsStore ==
  (pc = "ready" /\ redis_client /\ store_ok) => Ids(searches) = job_searches

====
